---- MODULE Spec2Model ----
(***************************************************************************)
(* BrowserWebDriverContainer (selenium/testcontainers/selenium/__init__.py)*)
(* as a state machine.  One session instance is driven by one synchronous  *)
(* caller: every public method is one action.  The container engine is the *)
(* environment: it holds the networks and containers that exist, any call  *)
(* to it may raise, and a call on a container or network that no longer    *)
(* exists always raises.  `calls` records every engine call in issue order.*)
(***************************************************************************)
EXTENDS Integers, Sequences, FiniteSets, TLC

\* ---------------------------------------------------------------- bounds
\* Number of method calls (with_video, start, stop, get_driver,
\* get_connection_url) on the instance.
MaxOps == 4

\* Attempts the readiness gate makes before it gives up (its deadline).
MaxTries == 3

\* ------------------------------------------------------ program constants
None == 0

\* IMAGES, lines 27-30
IMAGES ==
  [b \in {"firefox", "chrome"} |->
     IF b = "firefox" THEN "selenium/standalone-firefox:4.13.0-20231004"
                      ELSE "selenium/standalone-chrome:4.13.0-20231004"]

\* Capability sets handed to the constructor: mappings from a subset of
\* these capability names to values.
CapKeys == {"browserName", "platformName"}

CapValues(k) ==
  IF k = "browserName" THEN {"firefox", "chrome", "safari", "Firefox"}
  ELSE {"linux"}

CapabilitySets ==
  UNION {{c \in [K -> UNION {CapValues(k) : k \in K}] :
            \A k \in K : c[k] \in CapValues(k)} : K \in SUBSET CapKeys}

\* The optional image argument: absent (None), the empty string, or a name.
ImageArgs == {"<None>", "", "my/browser:1"}

\* __init__, lines 54-55: port: int = 4444, vnc_port: int = 5900
DefaultPort == 4444

DefaultVncPort == 5900

\* The port arguments handed to the constructor.
PortArgs == {DefaultPort, 4445, 8080}

VncPortArgs == {DefaultVncPort, 5901}

\* Host ports the engine may publish a container port on.
PublishedPorts == {DefaultPort, 32768, 32769}

\* Python truthiness of the image argument in `image or ...`
Truthy(img) == img \notin {"<None>", ""}

\* The capability set names a browser family the image table knows.
Recognized(caps) ==
  "browserName" \in DOMAIN caps /\ caps["browserName"] \in DOMAIN IMAGES

\* get_image_name, lines 33-34, with a default instead of the KeyError
get_image_name_default(caps) ==
  IF Recognized(caps) THEN [err |-> "", image |-> IMAGES[caps["browserName"]]]
  ELSE [err |-> "", image |-> IMAGES["chrome"]]

\* get_image_name, lines 33-34: IMAGES[capabilities['browserName']];
\* both subscripts raise KeyError on a missing key.
get_image_name(caps) ==
  IF Recognized(caps) THEN [err |-> "", image |-> IMAGES[caps["browserName"]]]
  ELSE [err |-> "KeyError", image |-> ""]

\* line 57: self.image = image or get_image_name(capabilities)
ChooseImage(caps, img) ==
  IF Truthy(img) THEN [err |-> "", image |-> img] ELSE get_image_name(caps)

\* ------------------------------------------------------------------ paths
\* A pathlib.Path is its parts: the root "/" first when absolute, then the
\* components; Path(".") has no parts.
\* EMPTY_PATH, line 25
EMPTY_PATH == << >>

\* The process's working directory: Path.cwd().
Cwd == <<"/", "work", "proj">>

\* The directories that exist on the host.
ExistingDirs ==
  { <<"/">>, <<"/", "work">>, Cwd, Cwd \o <<"run1">>, <<"/", "videos">> }

\* Path.parent
Parent(p) == IF Len(p) = 0 \/ p = <<"/">> THEN p ELSE SubSeq(p, 1, Len(p) - 1)

\* Path.name
Name(p) == IF Len(p) = 0 \/ p = <<"/">> THEN "" ELSE p[Len(p)]

\* str(path): the parts as written, "." for the path without parts
Str(p) == IF Len(p) = 0 THEN <<".">> ELSE p

\* The path made absolute against the working directory.
Absolute(p) == IF Len(p) > 0 /\ p[1] = "/" THEN p ELSE Cwd \o p

\* Path.samefile: os.stat of both; a path that does not exist raises.
SameFile(p, q) ==
  IF Absolute(p) \notin ExistingDirs \/ Absolute(q) \notin ExistingDirs
  THEN [err |-> "FileNotFoundError", same |-> FALSE]
  ELSE [err |-> "", same |-> Absolute(p) = Absolute(q)]

\* Target paths handed to with_video.
VideoPaths ==
  { <<"run1", "session.mp4">>, <<"session.mp4">>, << >>, <<"/">>,
    <<"nodir", "session.mp4">>, Cwd \o <<"session.mp4">>,
    <<"/", "videos", "a.mp4">>, <<"/", "videos">> }

\* with_video's default argument, line 86: video_path: Path = Path.cwd()
DefaultVideoPath == Cwd

\* ------------------------------------------------------------------ state
VARIABLES
  inst,        \* "none" before the constructor ran, "ok", or "failed" (it raised)
  args,        \* the constructor's arguments [capabilities, image]
  image,       \* self.image
  port,        \* self.port
  vncPort,     \* self.vnc_port
  video,       \* self.video: the recorder attachment
               \*   [present, net, host, ctr, dir, name]
  network,     \* self.network: None or the network object (name = id = n)
  netName,     \* the primary container's configured network name
  container,   \* the primary container's wrapped container: None or its id
  engNets,     \* engine: the networks that exist
  engCtrs,     \* engine: the containers that exist
  engRunning,  \* engine: the containers that run
  hostPort,    \* engine: host port published for self.port of the primary
  nextNet,     \* next fresh network name (uuid1)
  nextCtr,     \* next fresh container id
  calls,       \* every engine call issued, in order
  ops,         \* every method call made on the instance, with its outcome
  driver,      \* outcome of the last get_driver()
  url          \* outcome of the last get_connection_url()

vars == <<inst, args, image, port, vncPort, video, network, netName, container,
          engNets, engCtrs, engRunning, hostPort, nextNet, nextCtr, calls, ops,
          driver, url>>

\* dir: the recorder's output directory (<< >>: none configured);
\* name: its output file name ("": none configured, the recorder's default)
NoVideo ==
  [present |-> FALSE, net |-> None, host |-> None, ctr |-> None,
   dir |-> << >>, name |-> ""]

\* SeleniumVideoContainer(): a fresh, unstarted, unbound recorder
NewVideo ==
  [present |-> TRUE, net |-> None, host |-> None, ctr |-> None,
   dir |-> << >>, name |-> ""]

NoUrl == [err |-> "", url |-> << >>]

NoDriver ==
  [attempts |-> 0, result |-> "", handle |-> 0,
   script |-> [n |-> 0, then |-> "ok"], url |-> ""]

\* The instance and the engine as one record, threaded through a method body.
Machine ==
  [video |-> video, network |-> network, netName |-> netName,
   container |-> container, engNets |-> engNets, engCtrs |-> engCtrs,
   engRunning |-> engRunning, nextNet |-> nextNet, nextCtr |-> nextCtr,
   calls |-> calls, raised |-> ""]

\* One engine call as recorded: the method call it belongs to, the call, whose
\* container it concerns, its target (or result) identity, whether it
\* returned, and the network/target configuration of both containers when it
\* was issued.
Call(m, op, call, who, id, ok) ==
  [op |-> op, call |-> call, who |-> who, id |-> id, ok |-> ok,
   pnet |-> m.netName, vnet |-> m.video.net, vhost |-> m.video.host]

Init ==
  /\ inst = "none"
  /\ args = [capabilities |-> <<>>, image |-> "<None>"]
  /\ image = ""
  /\ port = None
  /\ vncPort = None
  /\ video = NoVideo
  /\ network = None
  /\ netName = None
  /\ container = None
  /\ engNets = {}
  /\ engCtrs = {}
  /\ engRunning = {}
  /\ hostPort = None
  /\ nextNet = 1
  /\ nextCtr = 1
  /\ calls = <<>>
  /\ ops = <<>>
  /\ driver = NoDriver
  /\ url = NoUrl

\* --------------------------------------------------------- the statements
\* A method body is its statements in program order, each under the condition
\* the source puts it under.  A statement that raises ends the method.
Stmt(cond, do) == [if |-> cond, do |-> do]

Holds(cond, m) ==
  CASE cond = "video"    -> m.video.present          \* if self.video:
    [] cond = "no video" -> ~m.video.present
    [] cond = "network"  -> m.network # None         \* if self.network:
    [] OTHER             -> TRUE

Raise(m, err) == [m EXCEPT !.raised = err]

\* self._docker.client.networks.create(str(uuid.uuid1())), line 101
NetworksCreate(m, op, fail) ==
  LET n == m.nextNet IN
  IF fail
  THEN [m EXCEPT !.nextNet = n + 1, !.raised = "APIError",
                 !.calls = Append(@, Call(m, op, "networks.create", "network", n, FALSE))]
  ELSE [m EXCEPT !.nextNet = n + 1, !.network = n, !.engNets = @ \cup {n},
                 !.calls = Append(@, Call(m, op, "networks.create", "network", n, TRUE))]

\* DockerContainer.start of the container `who`: docker run with the
\* configured network; the wrapped container is kept only when run returns.
DockerRun(m, op, who, fail) ==
  LET c   == m.nextCtr
      net == IF who = "primary" THEN m.netName ELSE m.video.net
      ok  == ~fail /\ (net = None \/ net \in m.engNets)
      m1  == [m EXCEPT !.nextCtr = IF ok THEN c + 1 ELSE c,
                       !.calls = Append(@, Call(m, op, "run", who, IF ok THEN c ELSE None, ok))]
  IN IF ~ok THEN Raise(m1, "APIError")
     ELSE LET m2 == [m1 EXCEPT !.engCtrs = @ \cup {c}, !.engRunning = @ \cup {c}]
          IN IF who = "primary" THEN [m2 EXCEPT !.container = c]
                                ELSE [m2 EXCEPT !.video.ctr = c]

\* <wrapped container>.stop(): fails on a container that no longer exists
ContainerStop(m, op, who, c, fail) ==
  LET ok == ~fail /\ c \in m.engCtrs
      m1 == [m EXCEPT !.calls = Append(@, Call(m, op, "stop", who, c, ok))]
  IN IF ok THEN [m1 EXCEPT !.engRunning = @ \ {c}] ELSE Raise(m1, "APIError")

\* DockerContainer.stop of the container `who`: remove the wrapped container.
\* On a container that was never started no engine call is made; `fail`
\* decides whether the absent wrapped container raises.
DockerRemove(m, op, who, fail) ==
  LET c == IF who = "primary" THEN m.container ELSE m.video.ctr IN
  IF c = None THEN (IF fail THEN Raise(m, "AttributeError") ELSE m)
  ELSE LET ok == ~fail /\ c \in m.engCtrs
           m1 == [m EXCEPT !.calls = Append(@, Call(m, op, "remove", who, c, ok))]
       IN IF ok THEN [m1 EXCEPT !.engCtrs = @ \ {c}, !.engRunning = @ \ {c}]
          ELSE Raise(m1, "APIError")

\* self.get_docker_client().client.api.remove_network(self.network.id), line 124
RemoveNetwork(m, op, fail) ==
  LET n  == m.network
      ok == ~fail /\ n \in m.engNets
      m1 == [m EXCEPT !.calls = Append(@, Call(m, op, "remove_network", "network", n, ok))]
  IN IF ok THEN [m1 EXCEPT !.engNets = @ \ {n}] ELSE Raise(m1, "APIError")

\* One statement of start() or stop(); `fail` says the engine fails it.
Exec(s, m, op, fail) ==
  IF ~Holds(s.if, m) THEN m
  ELSE CASE s.do = "networks.create"        -> NetworksCreate(m, op, fail)
         [] s.do = "set_network_name"       -> [m EXCEPT !.netName = m.network]
         [] s.do = "video.set_network_name" -> [m EXCEPT !.video.net = m.network]
         [] s.do = "super.start"            -> DockerRun(m, op, "primary", fail)
         [] s.do = "video.set_selenium_container_host"
                                            -> [m EXCEPT !.video.host = m.container]
         [] s.do = "video.start"            -> DockerRun(m, op, "video", fail)
         [] s.do = "video.container.stop"   ->
              IF m.video.ctr = None THEN Raise(m, "AttributeError")
              ELSE ContainerStop(m, op, "video", m.video.ctr, fail)
         [] s.do = "video.stop"             -> DockerRemove(m, op, "video", fail)
         [] s.do = "super.stop"             -> DockerRemove(m, op, "primary", fail)
         [] s.do = "remove_network"         -> RemoveNetwork(m, op, fail)
         [] OTHER                           -> m

RECURSIVE Run(_, _, _, _, _)
Run(body, i, m, op, failAt) ==
  IF i > Len(body) \/ m.raised # "" THEN m
  ELSE Run(body, i + 1, Exec(body[i], m, op, failAt = i), op, failAt)

\* start() with the network provisioned whether or not a recorder is attached
StartBodyAlwaysNetwork ==
  << Stmt("always", "networks.create"),
     Stmt("always", "set_network_name"),
     Stmt("video", "video.set_network_name"),
     Stmt("always", "super.start"),
     Stmt("video", "video.set_selenium_container_host"),
     Stmt("video", "video.start") >>

\* start() with the recorder bound to the network only after the primary runs
StartBodyLateBind ==
  << Stmt("video", "networks.create"),
     Stmt("video", "set_network_name"),
     Stmt("video", "super.start"),
     Stmt("video", "video.set_network_name"),
     Stmt("video", "video.set_selenium_container_host"),
     Stmt("video", "video.start"),
     Stmt("no video", "super.start") >>

\* start() with the recorder pointed at the primary before the primary runs
StartBodyEarlyHost ==
  << Stmt("video", "networks.create"),
     Stmt("video", "set_network_name"),
     Stmt("video", "video.set_network_name"),
     Stmt("video", "video.set_selenium_container_host"),
     Stmt("video", "super.start"),
     Stmt("video", "video.start"),
     Stmt("no video", "super.start") >>

\* start(), lines 99-113
StartBody ==
  << Stmt("video", "networks.create"),
     Stmt("video", "set_network_name"),
     Stmt("video", "video.set_network_name"),
     Stmt("video", "super.start"),
     Stmt("video", "video.set_selenium_container_host"),
     Stmt("video", "video.start"),
     Stmt("no video", "super.start") >>

\* stop() with the primary container stopped before the recorder
StopBodyPrimaryFirst ==
  << Stmt("always", "super.stop"),
     Stmt("video", "video.container.stop"),
     Stmt("video", "video.stop"),
     Stmt("network", "remove_network") >>

\* stop() with the network removed before the containers are stopped
StopBodyNetworkFirst ==
  << Stmt("network", "remove_network"),
     Stmt("video", "video.container.stop"),
     Stmt("video", "video.stop"),
     Stmt("always", "super.stop") >>

\* stop(), lines 115-124
StopBody ==
  << Stmt("video", "video.container.stop"),
     Stmt("video", "video.stop"),
     Stmt("always", "super.stop"),
     Stmt("network", "remove_network") >>

Outcome(m) == IF m.raised = "" THEN "ok" ELSE m.raised

\* One method call as recorded: its name and outcome, whether a target path
\* was given and which (with_video), and what the instance held on entry: a
\* recorder (rec), its wrapped container (vctr), the primary's wrapped
\* container (ctr) and the network (net).
OpArg(name, result, given, path) ==
  [name |-> name, result |-> result, given |-> given, path |-> path,
   rec |-> video.present, vctr |-> video.ctr, ctr |-> container,
   net |-> network]

Op(name, result) == OpArg(name, result, FALSE, << >>)

Commit(m) ==
  /\ video' = m.video
  /\ network' = m.network
  /\ netName' = m.netName
  /\ container' = m.container
  /\ engNets' = m.engNets
  /\ engCtrs' = m.engCtrs
  /\ engRunning' = m.engRunning
  /\ nextNet' = m.nextNet
  /\ nextCtr' = m.nextCtr
  /\ calls' = m.calls

\* ---------------------------------------------------------------- actions
\* __init__, lines 54-63; a raise at line 57 leaves the later fields unset
Construct(caps, img, p, vp) ==
  /\ inst = "none"
  /\ LET r == ChooseImage(caps, img) IN
     /\ args' = [capabilities |-> caps, image |-> img]
     /\ inst' = IF r.err = "" THEN "ok" ELSE "failed"
     /\ image' = r.image
     /\ port' = IF r.err = "" THEN p ELSE None
     /\ vncPort' = IF r.err = "" THEN vp ELSE None
     /\ video' = NoVideo
     /\ network' = None
  /\ UNCHANGED <<netName, container, engNets, engCtrs, engRunning, hostPort,
                 nextNet, nextCtr, calls, ops, driver, url>>

\* with_video, lines 86-97, with the file name never handed to the recorder
with_video_no_name(video_path) ==
  LET target == Parent(video_path)
      sf     == SameFile(target, EMPTY_PATH)
  IN IF sf.err # "" THEN [err |-> sf.err, video |-> NewVideo]
     ELSE [err |-> "",
           video |-> [NewVideo EXCEPT !.dir = Str(IF sf.same THEN Cwd ELSE target)]]

\* with_video, lines 86-97: a fresh recorder replaces the attachment (87); its
\* directory is the path's parent, or the working directory when the parent
\* is the same file as "." (89-92); its file name is the path's name when
\* that is not empty (94-95).  samefile raises when the parent does not exist.
with_video(video_path) ==
  LET target == Parent(video_path)
      sf     == SameFile(target, EMPTY_PATH)
      v1     == [NewVideo EXCEPT !.dir = Str(IF sf.same THEN Cwd ELSE target)]
  IN IF sf.err # "" THEN [err |-> sf.err, video |-> NewVideo]
     ELSE [err |-> "",
           video |-> IF Name(video_path) # ""
                     THEN [v1 EXCEPT !.name = Name(video_path)] ELSE v1]

\* with_video(path), or with_video() when no path is given
WithVideo(given, path) ==
  /\ inst = "ok"
  /\ Len(ops) < MaxOps
  /\ LET r == with_video(IF given THEN path ELSE DefaultVideoPath) IN
     /\ video' = r.video
     /\ ops' = Append(ops, OpArg("with_video", IF r.err = "" THEN "ok" ELSE r.err,
                                 given, IF given THEN path ELSE << >>))
  /\ UNCHANGED <<inst, args, image, port, vncPort, network, netName, container,
                 engNets, engCtrs, engRunning, hostPort, nextNet, nextCtr,
                 calls, driver, url>>

\* start(), lines 99-113; the engine fails statement failAt (0: none) and
\* publishes self.port of a newly run primary container on host port pub
Start(failAt, pub) ==
  /\ inst = "ok"
  /\ Len(ops) < MaxOps
  /\ LET m == Run(StartBody, 1, Machine, Len(ops) + 1, failAt) IN
     /\ Commit(m)
     /\ hostPort' = IF m.container # container THEN pub ELSE hostPort
     /\ ops' = Append(ops, Op("start", Outcome(m)))
  /\ UNCHANGED <<inst, args, image, port, vncPort, driver, url>>

\* stop(), lines 115-124; the engine fails statement failAt (0: none)
Stop(failAt) ==
  /\ inst = "ok"
  /\ Len(ops) < MaxOps
  /\ LET m == Run(StopBody, 1, Machine, Len(ops) + 1, failAt) IN
     /\ Commit(m)
     /\ ops' = Append(ops, Op("stop", Outcome(m)))
  /\ UNCHANGED <<inst, args, image, port, vncPort, hostPort, driver, url>>

\* ------------------------------------------------------- the readiness gate
\* What the protocol endpoint does to successive handshakes: it raises the
\* transient class script.n times, then answers script.then every time.
Scripts == [n : 0..MaxTries, then : {"ok", "WebDriverException"}]

\* get_container_host_ip: the address the engine's host is reached at
HostIp == "localhost"

Url(ip, p) ==
  [err |-> "", url |-> [scheme |-> "http://", ip |-> ip, port |-> p, path |-> "/wd/hub"]]

UrlError(e) ==
  [err |-> e, url |-> [scheme |-> "", ip |-> "", port |-> None, path |-> ""]]

\* get_connection_url, lines 81-84, with the configured port in the URL
get_connection_url_configured_port ==
  IF container = None THEN UrlError("AttributeError")
  ELSE IF container \notin engCtrs THEN UrlError("NotFound")
  ELSE Url(HostIp, port)

\* get_connection_url, lines 81-84: f'http://{ip}:{port}/wd/hub' with
\* port = get_exposed_port(self.port), the host port the engine published;
\* it cannot be queried for a container that was never started or no longer
\* exists.
get_connection_url ==
  IF container = None THEN UrlError("AttributeError")
  ELSE IF container \notin engCtrs THEN UrlError("NotFound")
  ELSE Url(HostIp, hostPort)

\* How resolving the endpoint ends: "ok" or the exception class
ConnectionUrl ==
  IF get_connection_url.err = "" THEN "ok" ELSE get_connection_url.err

\* get_connection_url() called by the user
GetConnectionUrl ==
  /\ inst = "ok"
  /\ Len(ops) < MaxOps
  /\ url' = get_connection_url
  /\ ops' = Append(ops, Op("get_connection_url", ConnectionUrl))
  /\ UNCHANGED <<inst, args, image, port, vncPort, video, network, netName,
                 container, engNets, engCtrs, engRunning, hostPort, nextNet,
                 nextCtr, calls, driver>>

\* _connect, lines 70-76: one handshake attempt, the i-th, and how it ends
Handshake(script, i) ==
  IF ConnectionUrl # "ok" THEN ConnectionUrl
  ELSE IF i <= script.n THEN "HTTPError"
  ELSE script.then

\* line 69, with every exception class treated as transient
IsTransientAny(e) == e # "ok"

\* line 69, with no exception class treated as transient
IsTransientNever(e) == FALSE

\* line 69: @wait_container_is_ready(urllib3.exceptions.HTTPError)
IsTransient(e) == e = "HTTPError"

\* wait_container_is_ready: call again while the call raises a transient
\* class, at most MaxTries times; then TimeoutError.
RECURSIVE Retry(_, _)
Retry(script, i) ==
  IF i > MaxTries
  THEN [attempts |-> MaxTries, result |-> "TimeoutError", handle |-> 0]
  ELSE LET e == Handshake(script, i) IN
       IF e = "ok" THEN [attempts |-> i, result |-> "ok", handle |-> i]
       ELSE IF IsTransient(e) THEN Retry(script, i + 1)
       ELSE [attempts |-> i, result |-> e, handle |-> 0]

\* get_driver, lines 78-79
GetDriver(script) ==
  /\ inst = "ok"
  /\ Len(ops) < MaxOps
  /\ LET r == Retry(script, 1) IN
     /\ driver' = [attempts |-> r.attempts, result |-> r.result,
                   handle |-> r.handle, script |-> script, url |-> ConnectionUrl]
     /\ ops' = Append(ops, Op("get_driver", r.result))
  /\ UNCHANGED <<inst, args, image, port, vncPort, video, network, netName,
                 container, engNets, engCtrs, engRunning, hostPort, nextNet,
                 nextCtr, calls, url>>

\* ------------------------------------------------------- specifications
\* The session lifecycle: one browser, default ports, one target path and one
\* published port; every engine failure point and handshake script.
Next ==
  \/ Construct([k \in {"browserName"} |-> "firefox"], "<None>", DefaultPort, DefaultVncPort)
  \/ WithVideo(TRUE, <<"run1", "session.mp4">>)
  \/ \E f \in 0..Len(StartBody) : Start(f, 32768)
  \/ \E f \in 0..Len(StopBody) : Stop(f)
  \/ \E s \in Scripts : GetDriver(s)

Spec == Init /\ [][Next]_vars

\* Configuration: the constructor on every argument combination.
NextConfig ==
  \E caps \in CapabilitySets, img \in ImageArgs, p \in PortArgs, vp \in VncPortArgs :
     Construct(caps, img, p, vp)

SpecConfig == Init /\ [][NextConfig]_vars

\* The connection endpoint: every configured port and published port, start
\* and stop without a recorder, and get_connection_url.
NextUrl ==
  \/ \E p \in PortArgs :
        Construct([k \in {"browserName"} |-> "chrome"], "<None>", p, DefaultVncPort)
  \/ \E f \in 0..Len(StartBody), pub \in PublishedPorts : Start(f, pub)
  \/ \E f \in 0..Len(StopBody) : Stop(f)
  \/ GetConnectionUrl

SpecUrl == Init /\ [][NextUrl]_vars

\* The recorder's output: with_video on every target path and without one,
\* followed by start.
NextVideo ==
  \/ Construct([k \in {"browserName"} |-> "firefox"], "my/browser:1", DefaultPort, DefaultVncPort)
  \/ \E path \in VideoPaths : WithVideo(TRUE, path)
  \/ WithVideo(FALSE, << >>)
  \/ \E f \in {0, 4} : Start(f, DefaultPort)

SpecVideo == Init /\ [][NextVideo]_vars

\* ----------------------------------------------------------------- claims
Idx == 1..Len(calls)

IsCall(i, call, who) == calls[i].call = call /\ calls[i].who = who

SameOp(i, j) == calls[i].op = calls[j].op

\* The method call that issued engine call i had a recorder attached on entry.
Recording(i) == ops[calls[i].op].rec

\* C1: with recording enabled, the recorder's start call is issued only after
\* the primary container's start returned in the same start(), and in stop()
\* the recorder's stop and removal are both issued and have returned before
\* the primary container's stop call is issued.
C1_RecorderInsidePrimary ==
  /\ \A i \in Idx : IsCall(i, "run", "video") =>
       \E j \in 1..(i - 1) :
          SameOp(i, j) /\ IsCall(j, "run", "primary") /\ calls[j].ok
  /\ \A i \in Idx : (IsCall(i, "remove", "primary") /\ Recording(i)) =>
       /\ \E j \in 1..(i - 1) : SameOp(i, j) /\ IsCall(j, "stop", "video") /\ calls[j].ok
       /\ \E j \in 1..(i - 1) : SameOp(i, j) /\ IsCall(j, "remove", "video") /\ calls[j].ok
       /\ \A j \in Idx : (SameOp(i, j) /\ calls[j].who = "video") => (j < i /\ calls[j].ok)

C1_Witness ==
  \E i, j \in Idx :
     /\ IsCall(i, "remove", "primary") /\ Recording(i) /\ calls[i].ok
     /\ IsCall(j, "run", "video") /\ calls[j].ok /\ j < i

\* DockerContainer.start and DockerContainer.stop: a bare single-container session
BareBody(name) ==
  IF name = "start" THEN << Stmt("always", "super.start") >>
  ELSE IF name = "stop" THEN << Stmt("always", "super.stop") >>
  ELSE << >>

\* C2: while no recorder was ever attached, every start() and stop() issues
\* exactly the engine calls, and leaves exactly the state, of the bare
\* container's start/stop under the same engine behaviour; no network call
\* and no recorder call is ever issued.
C2_NoRecordingIsBare ==
  [][ (~video.present /\ ~video'.present /\ ops' # ops) =>
        LET k    == Len(ops')
            name == ops'[k].name
        IN /\ name \in {"start", "stop"} =>
                \E f \in 0..1 :
                   LET b == Run(BareBody(name), 1, Machine, k, f)
                   IN /\ Machine' = [b EXCEPT !.raised = ""]
                      /\ ops'[k].result = Outcome(b)
           /\ name \notin {"start", "stop"} => calls' = calls
           /\ \A i \in 1..Len(calls') : calls'[i].who = "primary"
           /\ network' = None /\ engNets' = {} ]_vars

C2_Witness ==
  /\ ~video.present
  /\ \E k, l \in 1..Len(ops) :
        /\ k < l
        /\ ops[k].name = "start" /\ ops[k].result = "ok"
        /\ ops[l].name = "stop" /\ ops[l].result = "ok"
  /\ Len(calls) = 2

\* C3: a network removal call is issued only after, in the same stop(), the
\* recorder was stopped and removed and then the primary container was
\* removed, each call having returned.
C3_NetworkRemovedLast ==
  \A i \in Idx : calls[i].call = "remove_network" =>
     \E a, b, c \in 1..(i - 1) :
        /\ a < b /\ b < c
        /\ SameOp(a, i) /\ SameOp(b, i) /\ SameOp(c, i)
        /\ IsCall(a, "stop", "video") /\ calls[a].ok
        /\ IsCall(b, "remove", "video") /\ calls[b].ok
        /\ IsCall(c, "remove", "primary") /\ calls[c].ok

C3_Witness ==
  \E i \in Idx : calls[i].call = "remove_network" /\ calls[i].ok

\* C4: whenever a stop call on the recorder fails, the same stop() still
\* issues the primary container's stop call.
C4_PrimaryStoppedAfterRecorderFailure ==
  \A i \in Idx :
     (calls[i].who = "video" /\ calls[i].call \in {"stop", "remove"} /\ ~calls[i].ok) =>
        \E j \in Idx : j > i /\ SameOp(i, j) /\ IsCall(j, "remove", "primary")

\* C5: no network is the target of two remove-network calls.
C5_NetworkRemovedAtMostOnce ==
  \A i, j \in Idx :
     (i < j /\ calls[i].call = "remove_network" /\ calls[j].call = "remove_network")
        => calls[i].id # calls[j].id

C5_Witness ==
  \E k, l \in 1..Len(ops), i \in Idx :
     /\ k < l /\ ops[k].name = "stop" /\ ops[l].name = "stop"
     /\ \A x \in k..l : ops[x].name = "stop"
     /\ calls[i].op = k /\ calls[i].call = "remove_network"

\* C6: once start() has failed, no network that this start() created exists.
C6_NoNetworkAfterFailedStart ==
  \A i \in Idx :
     ( /\ calls[i].op = Len(ops)
       /\ ops[Len(ops)].name = "start" /\ ops[Len(ops)].result # "ok"
       /\ calls[i].call = "networks.create" /\ calls[i].ok )
     => calls[i].id \notin engNets

\* C7 as stated: a capability set without a recognized browser family makes
\* the constructor fail, whatever the image argument, before any engine call.
C7_UnrecognizedAlwaysFails ==
  (inst # "none" /\ ~Recognized(args.capabilities)) =>
     (inst = "failed" /\ calls = << >>)

\* C7 amended: a capability set without a recognized browser family makes the
\* constructor fail, before any engine call, when no image (None or the empty
\* string) is given.
C7_UnrecognizedFailsWithoutImage ==
  (inst # "none" /\ ~Recognized(args.capabilities) /\ ~Truthy(args.image)) =>
     (inst = "failed" /\ calls = << >> /\ ops = << >>)

C7_Witness ==
  inst = "failed" /\ ~Recognized(args.capabilities) /\ ~Truthy(args.image)

\* C8: the instance holds a network only if it holds a recorder attachment
\* (self.video and self.network are single slots: at most one of each).
C8_NetworkImpliesRecorder ==
  network # None => video.present

C8_Witness ==
  network # None /\ video.present /\ Len(SelectSeq(ops, LAMBDA o : o.name = "start")) >= 2

\* C9: with recording enabled, when the primary container's start call (the
\* first container start of a start()) is issued, the primary container and
\* the recorder are both configured with the name of the network that this
\* start() has just created.
C9_BothBoundBeforeFirstStart ==
  \A i \in Idx : (IsCall(i, "run", "primary") /\ Recording(i)) =>
     /\ calls[i].pnet # None
     /\ calls[i].pnet = calls[i].vnet
     /\ \E j \in 1..(i - 1) :
          /\ SameOp(i, j) /\ calls[j].call = "networks.create" /\ calls[j].ok
          /\ calls[j].id = calls[i].pnet
     /\ \A j \in 1..(i - 1) : SameOp(i, j) => calls[j].call # "run"

C9_Witness ==
  \E i, j \in Idx :
     /\ i < j /\ ~SameOp(i, j)
     /\ IsCall(i, "run", "primary") /\ Recording(i)
     /\ IsCall(j, "run", "primary") /\ Recording(j)

\* C10: with the endpoint resolvable, a handshake that raises the transient
\* class n times (n below the number of tries) and then succeeds makes
\* get_driver() return the handle of attempt n+1 after exactly n+1 attempts;
\* one that then raises another class makes get_driver() raise that class at
\* attempt n+1, with no further attempt.  An unresolvable endpoint raises at
\* the first attempt.
C10_RetriesOnlyTransient ==
  driver.result # "" =>
    LET n == driver.script.n
        then == driver.script.then
    IN IF driver.url # "ok"
       THEN driver.attempts = 1 /\ driver.result = driver.url /\ driver.handle = 0
       ELSE n < MaxTries =>
              /\ driver.attempts = n + 1
              /\ driver.result = then
              /\ driver.handle = IF then = "ok" THEN n + 1 ELSE 0

C10_Witness ==
  /\ driver.result = "ok" /\ driver.script.n = 2
  /\ driver.attempts = 3 /\ driver.handle = 3

\* C11: get_driver() never makes more than MaxTries attempts, and when the
\* endpoint is resolvable and the handshake raises the transient class on
\* every attempt up to the deadline, it ends after exactly MaxTries attempts
\* with TimeoutError, a class of its own, and no handle.
C11_TimeoutWhenDeadlineExhausted ==
  /\ driver.attempts <= MaxTries
  /\ (driver.result # "" /\ driver.url = "ok" /\ driver.script.n >= MaxTries) =>
        /\ driver.result = "TimeoutError"
        /\ driver.result \notin {"ok", "HTTPError", driver.script.then}
        /\ driver.attempts = MaxTries
        /\ driver.handle = 0

C11_Witness ==
  /\ driver.result = "TimeoutError" /\ driver.attempts = MaxTries
  /\ driver.script.n >= MaxTries /\ driver.script.then = "ok"

LastOp == ops[Len(ops)]

\* C12: a get_connection_url() that returns, returns
\* http://<host-ip>:<p>/wd/hub with p the host port the engine published for
\* the configured port; when the two differ, p is not the configured port.
C12_UrlUsesPublishedPort ==
  (ops # << >> /\ LastOp.name = "get_connection_url" /\ LastOp.result = "ok") =>
     /\ url.err = ""
     /\ url.url = [scheme |-> "http://", ip |-> HostIp, port |-> hostPort,
                   path |-> "/wd/hub"]
     /\ (hostPort # port => url.url.port # port)

C12_Witness ==
  /\ ops # << >> /\ LastOp.name = "get_connection_url" /\ LastOp.result = "ok"
  /\ hostPort # port /\ url.url.port = hostPort /\ port # DefaultPort

HasWithVideo == \E k \in 1..Len(ops) : ops[k].name = "with_video"

\* The latest with_video call; start() leaves directory and file name alone.
LastWithVideo ==
  ops[CHOOSE k \in 1..Len(ops) :
        /\ ops[k].name = "with_video"
        /\ \A l \in (k + 1)..Len(ops) : ops[l].name # "with_video"]

\* C13 as stated: after with_video(path), a path with a file name gives the
\* recorder that file name and the path's parent as its directory; a path
\* without one leaves the file name unset.
C13_NameAndParentConfigured ==
  (HasWithVideo /\ LastWithVideo.given) =>
     LET p == LastWithVideo.path IN
     IF Name(p) # ""
     THEN video.name = Name(p) /\ video.dir = Str(Parent(p))
     ELSE video.name = ""

\* C13 amended: with_video(path) raises FileNotFoundError, leaving a fresh
\* recorder with no directory and no file name, when the path's parent does
\* not exist.  Otherwise the file name is the path's final component when it
\* has one and is left unset when it has none, and the directory is the
\* path's parent as written, except that a parent that is the working
\* directory gives the absolute working directory.
C13_NameAndDirectoryConfigured ==
  (HasWithVideo /\ LastWithVideo.given) =>
     LET p   == LastWithVideo.path
         par == Parent(p)
     IN IF Absolute(par) \notin ExistingDirs
        THEN /\ LastWithVideo.result = "FileNotFoundError"
             /\ video.present /\ video.dir = << >> /\ video.name = ""
        ELSE /\ LastWithVideo.result = "ok"
             /\ video.name = (IF Name(p) # "" THEN Name(p) ELSE "")
             /\ video.dir = (IF Absolute(par) = Cwd THEN Cwd ELSE Str(par))

C13_Witness ==
  /\ HasWithVideo /\ LastWithVideo.given
  /\ LastWithVideo.path = <<"run1", "session.mp4">>
  /\ video.name = "session.mp4" /\ video.dir = <<"run1">>
  /\ video.ctr # None

\* C14: after with_video() without a path, the recorder's directory is the
\* working directory and no file name is set.
C14_DefaultIsCwdWithoutName ==
  (HasWithVideo /\ ~LastWithVideo.given) =>
     (video.dir = Str(Cwd) /\ video.name = "")

\* C15: in a stop() entered with a network held, once the primary
\* container's stop call has been issued, whether it returns or raises, the
\* network removal call is issued.
C15_NetworkRemovedWhateverPrimaryStop ==
  \A i \in Idx :
     (IsCall(i, "remove", "primary") /\ ops[calls[i].op].net # None) =>
        \E j \in Idx : j > i /\ SameOp(i, j) /\ calls[j].call = "remove_network"

\* C16: once a stop() that had a started primary container has returned, no
\* later start() creates a network or starts a container.
C16_StoppedIsTerminal ==
  \A i \in Idx : calls[i].call \in {"networks.create", "run"} =>
     ~\E k \in 1..(calls[i].op - 1) :
         ops[k].name = "stop" /\ ops[k].result = "ok" /\ ops[k].ctr # None

\* C17: when the last call on an instance with a recorder is a stop() that
\* returned, every network the instance created has been removed, and every
\* network removal targeted a network the instance created.
C17_EveryCreatedNetworkRemoved ==
  (ops # << >> /\ LastOp.name = "stop" /\ LastOp.result = "ok" /\ LastOp.rec) =>
     /\ \A i \in Idx : (calls[i].call = "networks.create" /\ calls[i].ok) =>
           calls[i].id \notin engNets
     /\ \A i \in Idx : calls[i].call = "remove_network" =>
           \E j \in 1..(i - 1) :
              calls[j].call = "networks.create" /\ calls[j].ok /\ calls[j].id = calls[i].id

\* C18: a stop() entered with a recorder attached whose container was never
\* started, and with a started primary container, issues the primary
\* container's stop call, and the network removal when a network is held.
C18_StopWithUnstartedRecorder ==
  \A k \in 1..Len(ops) :
     (ops[k].name = "stop" /\ ops[k].rec /\ ops[k].vctr = None /\ ops[k].ctr # None) =>
        /\ \E i \in Idx : calls[i].op = k /\ IsCall(i, "remove", "primary")
        /\ ops[k].net # None =>
              \E i \in Idx : calls[i].op = k /\ calls[i].call = "remove_network"

\* C19: when the recorder's start call is issued, its target-container
\* identity is set and is the identity of the primary container that the same
\* start() has just started.
C19_RecorderTargetsFreshPrimary ==
  \A i \in Idx : IsCall(i, "run", "video") =>
     /\ calls[i].vhost # None
     /\ \E j \in 1..(i - 1) :
          /\ SameOp(i, j) /\ IsCall(j, "run", "primary") /\ calls[j].ok
          /\ calls[j].id = calls[i].vhost
          /\ \A l \in (j + 1)..(i - 1) : ~IsCall(l, "run", "primary")

C19_Witness ==
  \E i, j \in Idx :
     /\ i < j /\ ~SameOp(i, j)
     /\ IsCall(i, "run", "video") /\ IsCall(j, "run", "video")
     /\ calls[i].vhost # calls[j].vhost

====
